---- MODULE Spec2Model ----
(***************************************************************************)
(* Zoom step controller of the OMX camera adapter                          *)
(* (camera/OMXCameraAdapter/OMXZoom.cpp).                                  *)
(*                                                                         *)
(* The zoom members of OMXCameraAdapter are the state; every public zoom   *)
(* method (setParametersZoom, advanceZoom, startSmoothZoom,                *)
(* stopSmoothZoom) is one action, executed under mZoomLock, with the       *)
(* private doZoom and getZoomStep as operators.  The capture state         *)
(* machine (BaseCameraAdapter), the OMX component state, the capture mode  *)
(* and the sensor index are owned by code outside this file and change by  *)
(* environment actions.                                                    *)
(***************************************************************************)
EXTENDS Integers, Sequences, FiniteSets, TLC

\* Number of zoom stages the sensor reports (mMaxZoomSupported, read from the
\* capabilities outside this file); at most ZOOM_STAGES.
mMaxZoomSupported == 3

\* OMXCameraAdapter::ZOOM_STEPS, 16.16 fixed point scale factors.
ZOOM_STEPS ==
    << 65536, 68157, 70124, 72745,
       75366, 77988, 80609, 83231,
       86508, 89784, 92406, 95683,
       99615, 102892, 106168, 110100,
       114033, 117965, 122552, 126484,
       131072, 135660, 140247, 145490,
       150733, 155976, 161219, 167117,
       173015, 178913, 185467, 192020,
       198574, 205783, 212992, 220201,
       228065, 236585, 244449, 252969,
       262144, 271319, 281149, 290980,
       300810, 311951, 322437, 334234,
       346030, 357827, 370934, 384041,
       397148, 411566, 425984, 441057,
       456131, 472515, 488899, 506593,
       524288 >>

FrontSensorVideoMinZoom == 66816

BackSensorVideoMinZoom == 66304

\* status_t values returned by the zoom methods.
NO_ERROR == "NO_ERROR"

UNKNOWN_ERROR == "-1"

EINVAL == "-EINVAL"

\* Result of the failed capture state transition (BaseCameraAdapter::setState).
STATE_ERROR == "STATE_ERROR"

\* Value of the KEY_ZOOM parameter / of targetIdx a caller may pass: every valid
\* index, one below and one above the valid range.
ZoomArgs == -1 .. mMaxZoomSupported

\* Capture modes the client switches between: a still mode and a video mode
\* (in this file VIDEO_MODE_HQ is treated exactly as VIDEO_MODE).
CapModes == {"HIGH_QUALITY", "VIDEO_MODE"}

SensorIndexes == {0, 1}

VARIABLES
    CAMERAHAL_TUNA,        \* build flag: TRUE when compiled with CAMERAHAL_TUNA
    mCurrentZoomIdx,
    mTargetZoomIdx,
    mPreviousZoomIndx,     \* index last written to the component
    mZoomInc,
    mReturnZoomStatus,     \* one final step is pending after stopSmoothZoom
    mZoomUpdating,         \* an immediate zoom was applied since the last advanceZoom
    mZoomUpdate,           \* an immediate zoom is deferred to the next advanceZoom
    mPrevZoomModeIsVideo,
    mPrevZoomSensorIndex,
    mComponentState,       \* "valid" or "OMX_StateInvalid"
    mCapMode,
    mSensorIndex,
    zoomActive,            \* ZOOM_ACTIVE bit of the BaseCameraAdapter state
    last,                  \* what the last zoom method call did (observation)
    lastApply,             \* the last doZoom call (observation)
    anim,                  \* the running smooth zoom sequence (observation)
    cancel,                \* the cancelled smooth zoom sequence (observation)
    mZoomLock,             \* the thread that holds mZoomLock, or "free"
    pc                     \* per thread: the zoom method it is in and where

session == << mCurrentZoomIdx, mTargetZoomIdx, mPreviousZoomIndx, mZoomInc,
              mReturnZoomStatus, mZoomUpdating, mZoomUpdate,
              mPrevZoomModeIsVideo, mPrevZoomSensorIndex >>

environment == << CAMERAHAL_TUNA, mComponentState, mCapMode, mSensorIndex >>

observations == << last, lastApply, anim, cancel >>

threads == << mZoomLock, pc >>

vars == << session, environment, zoomActive, observations, threads >>

----------------------------------------------------------------------------
\* Pure helpers

InRange(index) == (index >= 0) /\ (index < mMaxZoomSupported)

IsVideoMode(capMode) == capMode = "VIDEO_MODE" \/ capMode = "VIDEO_MODE_HQ"

\* getZoomStep: prevVideo and sensor are mPrevZoomModeIsVideo and mSensorIndex
\* at the time of the call.
getZoomStep(tuna, index, prevVideo, sensor) ==
    IF tuna
    THEN IF index # 0 \/ ~prevVideo THEN ZOOM_STEPS[index + 1]
         ELSE IF sensor = 1 THEN FrontSensorVideoMinZoom
         ELSE BackSensorVideoMinZoom
    ELSE ZOOM_STEPS[index + 1]

\* StepDirection with the comparison turned round.
StepDirectionReversed(cur, tgt) == IF cur > tgt THEN 1 ELSE -1

\* Direction of one smooth zoom step from cur towards tgt.
StepDirection(cur, tgt) == IF cur < tgt THEN 1 ELSE -1

----------------------------------------------------------------------------
\* doZoom

\* The members doZoom reads and writes besides its argument.
ZoomApplied == [ prev   |-> mPreviousZoomIndx,
                 video  |-> mPrevZoomModeIsVideo,
                 sensor |-> mPrevZoomSensorIndex ]

\* ZoomAlreadyApplied that never takes index 0 as applied.
ZoomAlreadyAppliedExceptZero(z, index) == z.prev = index /\ index # 0

\* The test that makes doZoom return early without touching the component:
\* the index is the one last written and, in the tuna build for index 0, the
\* capture mode and the sensor are the ones of the last call that got past
\* this test.
ZoomAlreadyApplied(z, index) ==
    IF CAMERAHAL_TUNA
    THEN z.prev = index
         /\ (index # 0 \/ (IsVideoMode(mCapMode) = z.video /\ mSensorIndex = z.sensor))
    ELSE z.prev = index

\* Members written before the OMX_SetConfig call (tuna build only).
ZoomContextStored(z) ==
    IF CAMERAHAL_TUNA
    THEN [z EXCEPT !.video = IsVideoMode(mCapMode), !.sensor = mSensorIndex]
    ELSE z

\* Member written after OMX_SetConfig returned OMX_ErrorNone.
ZoomIndexStored(z, index) == [z EXCEPT !.prev = index]

\* doZoom(index) on the members z; hwOk says whether OMX_SetConfig, if it is
\* called, returns OMX_ErrorNone.  Result: the members afterwards, the status
\* returned, and an observation of the call: hw is "skip" (early return),
\* "none" (an error before the write), "ok" or "fail" (OMX_SetConfig was
\* called with xWidth = xHeight = val).
doZoom(z, index, hwOk) ==
    LET ret0 == IF mComponentState = "OMX_StateInvalid" THEN UNKNOWN_ERROR ELSE NO_ERROR
        ret1 == IF (0 > index) \/ ((mMaxZoomSupported - 1) < index) THEN EINVAL ELSE ret0
        z1   == ZoomContextStored(z)
        obs(ret, hw, val) == [ index |-> index, ret |-> ret, hw |-> hw, val |-> val ]
    IN  IF ZoomAlreadyApplied(z, index)
        THEN [ z |-> z, ret |-> NO_ERROR, call |-> obs(NO_ERROR, "skip", 0) ]
        ELSE IF ret1 = NO_ERROR
        THEN LET val == getZoomStep(CAMERAHAL_TUNA, index, z1.video, mSensorIndex)
             IN  IF hwOk
                 THEN [ z |-> ZoomIndexStored(z1, index), ret |-> NO_ERROR,
                        call |-> obs(NO_ERROR, "ok", val) ]
                 ELSE [ z |-> z1, ret |-> UNKNOWN_ERROR,
                        call |-> obs(UNKNOWN_ERROR, "fail", val) ]
        ELSE [ z |-> z1, ret |-> ret1, call |-> obs(ret1, "none", 0) ]

----------------------------------------------------------------------------
\* Observations

\* anim: the smooth zoom sequence that startSmoothZoom began from index from
\* towards index to with no update deferred, while no other zoom method than
\* advanceZoom has been called since and every advanceZoom since (ticks of them)
\* saw ZOOM_ACTIVE and got NO_ERROR from doZoom.
NoAnim == [ on |-> FALSE, from |-> 0, to |-> 0, ticks |-> 0 ]

\* cancel: "pending" from a stopSmoothZoom call made dist indices away from the
\* target until the next zoom method call; "settled" from then on if that call
\* is advanceZoom, for as long as only advanceZoom is called.
NoCancel == [ phase |-> "none", dist |-> 0 ]

Distance(a, b) == IF a < b THEN b - a ELSE a - b

\* The last doZoom call, when it wrote to the component with success: its index
\* and the capture mode and sensor it ran with.  NoApply otherwise.
NoApply == [ ok |-> FALSE, index |-> 0, video |-> FALSE, sensor |-> 0 ]

ApplyOf(call) ==
    IF call.hw = "ok"
    THEN [ ok |-> TRUE, index |-> call.index, video |-> IsVideoMode(mCapMode),
           sensor |-> mSensorIndex ]
    ELSE NoApply

\* call repeats the doZoom call before it: same index, same capture mode and
\* sensor, and that call wrote to the component with success.
Repeats(before, call) ==
    /\ before.ok
    /\ before.index = call.index
    /\ before.video = IsVideoMode(mCapMode)
    /\ before.sensor = mSensorIndex

\* The doZoom calls of one method call, each marked with whether it repeats
\* the call before it.
RECURSIVE Marked(_, _)
Marked(before, calls) ==
    IF calls = << >> THEN << >>
    ELSE << [ index |-> calls[1].index, ret |-> calls[1].ret, hw |-> calls[1].hw,
              val |-> calls[1].val, repeat |-> Repeats(before, calls[1]) ] >>
         \o Marked(ApplyOf(calls[1]), Tail(calls))

Observed(op, ret, calls, notes, exit, branch) ==
    [ op |-> op, ret |-> ret, calls |-> Marked(lastApply, calls),
      notes |-> notes, exit |-> exit, branch |-> branch ]

LastCall(calls) == IF calls = << >> THEN lastApply ELSE ApplyOf(calls[Len(calls)])

----------------------------------------------------------------------------
\* The threads that call the zoom methods: the one of the client API and the
\* one of the frame loop.
Threads == {"api", "frame"}

\* A thread outside the zoom methods.
NotCalling == [ op |-> "none", at |-> << >> ]

\* State after construction.  The constructor is in OMXCameraAdapter.cpp; the
\* zoom session starts with all indices at 0 and no flag set.
Init ==
    /\ CAMERAHAL_TUNA \in BOOLEAN
    /\ mCurrentZoomIdx = 0
    /\ mTargetZoomIdx = 0
    /\ mPreviousZoomIndx = 0
    /\ mZoomInc = 1
    /\ mReturnZoomStatus = FALSE
    /\ mZoomUpdating = FALSE
    /\ mZoomUpdate = FALSE
    /\ mPrevZoomModeIsVideo = FALSE
    /\ mSensorIndex \in (IF CAMERAHAL_TUNA THEN SensorIndexes ELSE {0})
    /\ mPrevZoomSensorIndex \in (IF CAMERAHAL_TUNA THEN SensorIndexes ELSE {0})
    /\ mComponentState = "valid"
    /\ mCapMode = "HIGH_QUALITY"
    /\ zoomActive = FALSE
    /\ last = Observed("init", NO_ERROR, << >>, << >>, "none", "none")
    /\ lastApply = NoApply
    /\ anim = NoAnim
    /\ cancel = NoCancel
    /\ mZoomLock = "free"
    /\ pc = [ t \in Threads |-> NotCalling ]

----------------------------------------------------------------------------
\* setParametersZoom(params, state): zoom is params.getInt(KEY_ZOOM), state is
\* whether the adapter state the caller read before the call has ZOOM_ACTIVE,
\* hwOk the outcome of OMX_SetConfig (a failure is offered only where the
\* call happens).

\* ImmediateIndex leaving mCurrentZoomIdx as it was.
ImmediateIndexKept(cur, tgt) == cur

\* The value setParametersZoom gives mCurrentZoomIdx once mTargetZoomIdx is set.
ImmediateIndex(cur, tgt) == tgt

setParametersZoom(zoom, state, hwOk) ==
    LET accepted == ~state /\ (zoom >= 0) /\ (zoom < mMaxZoomSupported)
        tgt == IF accepted THEN zoom ELSE mTargetZoomIdx
        cur == IF accepted THEN ImmediateIndex(mCurrentZoomIdx, tgt) ELSE mCurrentZoomIdx
        apply == accepted /\ ~mZoomUpdating
        d == doZoom(ZoomApplied, cur, hwOk)
        calls == IF apply THEN << d.call >> ELSE << >>
    IN  /\ hwOk \/ (apply /\ d.call.hw = "fail")
        /\ mTargetZoomIdx' = tgt
        /\ mCurrentZoomIdx' = cur
        /\ mPreviousZoomIndx' = IF apply THEN d.z.prev ELSE mPreviousZoomIndx
        /\ mPrevZoomModeIsVideo' = IF apply THEN d.z.video ELSE mPrevZoomModeIsVideo
        /\ mPrevZoomSensorIndex' = IF apply THEN d.z.sensor ELSE mPrevZoomSensorIndex
        /\ mZoomUpdating' = IF accepted THEN TRUE ELSE mZoomUpdating
        /\ mZoomUpdate' = IF accepted /\ mZoomUpdating THEN TRUE ELSE mZoomUpdate
        /\ last' = Observed("setParametersZoom", NO_ERROR, calls,
                            << >>, "none",
                            IF state THEN "busy"
                            ELSE IF ~accepted THEN "range"
                            ELSE IF apply THEN "applied" ELSE "deferred")
        /\ lastApply' = LastCall(calls)
        /\ anim' = NoAnim
        /\ cancel' = NoCancel
        /\ UNCHANGED << mZoomInc, mReturnZoomStatus,
                        environment, zoomActive >>

----------------------------------------------------------------------------
\* startSmoothZoom(targetIdx)

\* SmoothTargetValid with the upper limit off by one.
SmoothTargetValidInclusive(targetIdx) ==
    (targetIdx >= 0) /\ (targetIdx <= mMaxZoomSupported)

\* The range test of startSmoothZoom.
SmoothTargetValid(targetIdx) == (targetIdx >= 0) /\ (targetIdx < mMaxZoomSupported)

\* startSmoothZoom.  The member mZoomParameterIdx it also stores is read by
\* no zoom method, so it is not part of the state.
startSmoothZoom(targetIdx) ==
    LET valid == SmoothTargetValid(targetIdx)
    IN  /\ mTargetZoomIdx' = IF valid THEN targetIdx ELSE mTargetZoomIdx
        /\ mReturnZoomStatus' = IF valid THEN FALSE ELSE mReturnZoomStatus
        /\ last' = Observed("startSmoothZoom",
                            IF valid THEN NO_ERROR ELSE EINVAL, << >>, << >>, "none",
                            IF valid THEN "accepted" ELSE "rejected")
        /\ anim' = IF valid /\ ~mZoomUpdate
                   THEN [ on |-> TRUE, from |-> mCurrentZoomIdx, to |-> targetIdx,
                          ticks |-> 0 ]
                   ELSE NoAnim
        /\ cancel' = NoCancel
        /\ UNCHANGED << mCurrentZoomIdx, mPreviousZoomIndx, mZoomInc, mZoomUpdating,
                        mZoomUpdate, mPrevZoomModeIsVideo, mPrevZoomSensorIndex,
                        environment, zoomActive, lastApply >>

----------------------------------------------------------------------------
\* stopSmoothZoom()

stopSmoothZoom ==
    LET moving == mTargetZoomIdx # mCurrentZoomIdx
    IN  /\ mZoomInc' = IF moving THEN StepDirection(mCurrentZoomIdx, mTargetZoomIdx)
                       ELSE mZoomInc
        /\ mReturnZoomStatus' = IF moving THEN TRUE ELSE mReturnZoomStatus
        /\ last' = Observed("stopSmoothZoom", NO_ERROR, << >>, << >>, "none",
                            IF moving THEN "scheduled" ELSE "idle")
        /\ anim' = NoAnim
        /\ cancel' = IF moving
                     THEN [ phase |-> "pending",
                            dist |-> Distance(mCurrentZoomIdx, mTargetZoomIdx) ]
                     ELSE NoCancel
        /\ UNCHANGED << mCurrentZoomIdx, mTargetZoomIdx, mPreviousZoomIndx,
                        mZoomUpdating, mZoomUpdate,
                        mPrevZoomModeIsVideo, mPrevZoomSensorIndex,
                        environment, zoomActive, lastApply >>

----------------------------------------------------------------------------
\* Capture state machine (BaseCameraAdapter, outside this file)

\* setState(CAMERA_STOP_SMOOTH_ZOOM) followed by commitState() when it is
\* accepted, by rollbackState() when it is not: the state leaves ZOOM_ACTIVE
\* only when the transition is accepted.
requestExitSmoothZoom(exitOk) ==
    IF exitOk
    THEN [ ret |-> NO_ERROR, exit |-> "committed", active |-> FALSE ]
    ELSE [ ret |-> STATE_ERROR, exit |-> "rolledback", active |-> TRUE ]

----------------------------------------------------------------------------
\* advanceZoom(): hw1 and hw2 are the outcomes of the OMX_SetConfig calls of
\* the first and of the trailing doZoom, exitOk the outcome of the capture
\* state transition.  An outcome is drawn only for a call that is made: a
\* failure is offered only where the call happens.

\* advanceReturnStep that keeps chasing the target: mTargetZoomIdx is not
\* forced to the index reached.
advanceReturnStepKeepsTarget(z, hw1) ==
    LET cur == mCurrentZoomIdx + mZoomInc
        d   == doZoom(z, cur, hw1)
    IN  [ cur |-> cur, tgt |-> mTargetZoomIdx, inc |-> mZoomInc, rzs |-> FALSE,
          ret |-> d.ret, z |-> d.z, calls |-> << d.call >>,
          notes |-> << [ index |-> cur, final |-> TRUE ] >>,
          exit |-> "none", active |-> zoomActive, branch |-> "return" ]

\* if ( mReturnZoomStatus ) branch
advanceReturnStep(z, hw1) ==
    LET cur == mCurrentZoomIdx + mZoomInc
        d   == doZoom(z, cur, hw1)
    IN  [ cur |-> cur, tgt |-> cur, inc |-> mZoomInc, rzs |-> FALSE, ret |-> d.ret,
          z |-> d.z, calls |-> << d.call >>,
          notes |-> << [ index |-> cur, final |-> TRUE ] >>,
          exit |-> "none", active |-> zoomActive, branch |-> "return" ]

\* else if ( mCurrentZoomIdx != mTargetZoomIdx ) branch, state has ZOOM_ACTIVE
advanceSmoothStep(z, hw1, exitOk) ==
    LET inc  == StepDirection(mCurrentZoomIdx, mTargetZoomIdx)
        cur  == mCurrentZoomIdx + inc
        d    == doZoom(z, cur, hw1)
        goal == cur = mTargetZoomIdx
        x    == requestExitSmoothZoom(exitOk)
        asks == goal /\ d.ret = NO_ERROR
    IN  [ cur |-> cur, tgt |-> mTargetZoomIdx, inc |-> inc,
          rzs |-> IF goal THEN FALSE ELSE mReturnZoomStatus,
          ret |-> IF asks THEN x.ret ELSE d.ret,
          z |-> d.z, calls |-> << d.call >>,
          notes |-> << [ index |-> cur, final |-> goal ] >>,
          exit |-> IF asks THEN x.exit ELSE "none",
          active |-> IF asks THEN x.active ELSE zoomActive,
          branch |-> "step" ]

\* else if ( mCurrentZoomIdx != mTargetZoomIdx ) branch, state without ZOOM_ACTIVE
advanceJump(z, hw1) ==
    LET cur == mTargetZoomIdx
        d   == doZoom(z, cur, hw1)
    IN  [ cur |-> cur, tgt |-> mTargetZoomIdx, inc |-> mZoomInc,
          rzs |-> mReturnZoomStatus, ret |-> d.ret,
          z |-> d.z, calls |-> << d.call >>, notes |-> << >>,
          exit |-> "none", active |-> zoomActive, branch |-> "jump" ]

\* advanceSettled that leaves the capture state machine alone.
advanceSettledWithoutExit(z, exitOk) ==
    [ cur |-> mCurrentZoomIdx, tgt |-> mTargetZoomIdx, inc |-> mZoomInc,
      rzs |-> mReturnZoomStatus, ret |-> NO_ERROR,
      z |-> z, calls |-> << >>, notes |-> << >>,
      exit |-> "none", active |-> zoomActive, branch |-> "settled" ]

\* else if ( mCurrentZoomIdx == mTargetZoomIdx && ZOOM_ACTIVE & state ) branch
advanceSettled(z, exitOk) ==
    LET x == requestExitSmoothZoom(exitOk)
    IN  [ cur |-> mCurrentZoomIdx, tgt |-> mTargetZoomIdx, inc |-> mZoomInc,
          rzs |-> mReturnZoomStatus, ret |-> x.ret,
          z |-> z, calls |-> << >>, notes |-> << >>,
          exit |-> x.exit, active |-> x.active, branch |-> "settled" ]

\* none of the branches
advanceIdle(z) ==
    [ cur |-> mCurrentZoomIdx, tgt |-> mTargetZoomIdx, inc |-> mZoomInc,
      rzs |-> mReturnZoomStatus, ret |-> NO_ERROR,
      z |-> z, calls |-> << >>, notes |-> << >>,
      exit |-> "none", active |-> zoomActive, branch |-> "idle" ]

\* A tick of the running smooth zoom sequence counts while the adapter state
\* had ZOOM_ACTIVE and every doZoom of the tick returned NO_ERROR.
AnimAfter(state, calls) ==
    IF /\ anim.on
       /\ state
       /\ anim.ticks < Distance(anim.from, anim.to)
       /\ \A i \in 1 .. Len(calls) : calls[i].ret = NO_ERROR
    THEN [ anim EXCEPT !.ticks = anim.ticks + 1 ]
    ELSE NoAnim

advanceZoom(hw1, hw2, exitOk) ==
    LET state == zoomActive
        b == IF mReturnZoomStatus THEN advanceReturnStep(ZoomApplied, hw1)
             ELSE IF mCurrentZoomIdx # mTargetZoomIdx
             THEN IF state THEN advanceSmoothStep(ZoomApplied, hw1, exitOk)
                  ELSE advanceJump(ZoomApplied, hw1)
             ELSE IF state THEN advanceSettled(ZoomApplied, exitOk)
             ELSE advanceIdle(ZoomApplied)
        d2 == doZoom(b.z, b.tgt, hw2)
        z2 == IF mZoomUpdate THEN d2.z ELSE b.z
        calls == IF mZoomUpdate THEN Append(b.calls, d2.call) ELSE b.calls
    IN  /\ hw1 \/ (b.calls # << >> /\ b.calls[1].hw = "fail")
        /\ hw2 \/ (mZoomUpdate /\ d2.call.hw = "fail")
        /\ exitOk \/ b.exit = "rolledback"
        /\ mCurrentZoomIdx' = b.cur
        /\ mTargetZoomIdx' = b.tgt
        /\ mZoomInc' = b.inc
        /\ mReturnZoomStatus' = b.rzs
        /\ mPreviousZoomIndx' = z2.prev
        /\ mPrevZoomModeIsVideo' = z2.video
        /\ mPrevZoomSensorIndex' = z2.sensor
        /\ mZoomUpdate' = FALSE
        /\ mZoomUpdating' = mZoomUpdate
        /\ zoomActive' = b.active
        /\ last' = Observed("advanceZoom", b.ret, calls, b.notes, b.exit,
                            b.branch)
        /\ lastApply' = LastCall(calls)
        /\ anim' = AnimAfter(state, calls)
        /\ cancel' = IF cancel.phase = "none" THEN NoCancel
                     ELSE [ cancel EXCEPT !.phase = "settled" ]
        /\ UNCHANGED environment

----------------------------------------------------------------------------
\* Environment

\* The capture state machine enters or leaves a ZOOM_ACTIVE state on a command
\* handled outside this file (start and stop of smooth zoom by the client).
CaptureStateChange ==
    /\ zoomActive' = ~zoomActive
    /\ UNCHANGED << session, environment, observations >>

\* The OMX component enters OMX_StateInvalid (it does not leave it).
ComponentInvalid ==
    /\ mComponentState = "valid"
    /\ mComponentState' = "OMX_StateInvalid"
    /\ UNCHANGED << session, CAMERAHAL_TUNA, mCapMode, mSensorIndex, zoomActive,
                    observations >>

\* The capture mode changes.  Only the tuna build of this file reads it.
CapModeChange(mode) ==
    /\ CAMERAHAL_TUNA
    /\ mode # mCapMode
    /\ mCapMode' = mode
    /\ UNCHANGED << session, CAMERAHAL_TUNA, mComponentState, mSensorIndex,
                    zoomActive, observations >>

----------------------------------------------------------------------------
\* Every zoom method call as one step: mZoomLock makes the calls of different
\* threads follow one another (see LockSpec below for the threads).
Next ==
    \/ \E zoom \in ZoomArgs, state \in BOOLEAN, hwOk \in BOOLEAN :
           setParametersZoom(zoom, state, hwOk) /\ UNCHANGED threads
    \/ \E targetIdx \in ZoomArgs : startSmoothZoom(targetIdx) /\ UNCHANGED threads
    \/ stopSmoothZoom /\ UNCHANGED threads
    \/ \E hw1 \in BOOLEAN, hw2 \in BOOLEAN, exitOk \in BOOLEAN :
           advanceZoom(hw1, hw2, exitOk) /\ UNCHANGED threads
    \/ CaptureStateChange /\ UNCHANGED threads
    \/ ComponentInvalid /\ UNCHANGED threads
    \/ \E mode \in CapModes : CapModeChange(mode) /\ UNCHANGED threads

Spec == Init /\ [][Next]_vars

----------------------------------------------------------------------------
\* Properties

\* The zoom method calls of one step, by argument.
SetZoomStep(zoom, state) == \E hwOk \in BOOLEAN : setParametersZoom(zoom, state, hwOk)

AdvanceStep ==
    \E hw1 \in BOOLEAN, hw2 \in BOOLEAN, exitOk \in BOOLEAN : advanceZoom(hw1, hw2, exitOk)

\* The calls of the last method call that reached OMX_SetConfig.
Writes(calls) == SelectSeq(calls, LAMBDA c : c.hw = "ok" \/ c.hw = "fail")

\* C1: in every reachable state mCurrentZoomIdx and mTargetZoomIdx are valid
\* zoom indices, 0 <= index < mMaxZoomSupported.
C1_IndicesInRange == InRange(mCurrentZoomIdx) /\ InRange(mTargetZoomIdx)

\* C2: setParametersZoom with a valid index and a state without ZOOM_ACTIVE
\* leaves mCurrentZoomIdx = mTargetZoomIdx = index, whatever the session state
\* before the call.
C2_ImmediateZoomSetsBothIndices ==
    [][last'.op = "setParametersZoom" =>
          \A zoom \in ZoomArgs :
             (InRange(zoom) /\ SetZoomStep(zoom, FALSE))
                => (mCurrentZoomIdx' = zoom /\ mTargetZoomIdx' = zoom)]_vars

\* An immediate zoom to the highest index was accepted while an update was in
\* flight and a return step was pending.
C2_Witness ==
    /\ last.op = "setParametersZoom"
    /\ last.branch = "deferred"
    /\ mReturnZoomStatus
    /\ mCurrentZoomIdx = mMaxZoomSupported - 1
    /\ mTargetZoomIdx = mMaxZoomSupported - 1

\* C3: setParametersZoom with an index outside the valid range returns an
\* error, changes no session member and writes nothing to the component.
C3_OutOfRangeIsAnError ==
    [][\A zoom \in ZoomArgs :
          (~InRange(zoom) /\ SetZoomStep(zoom, FALSE))
             => (last'.ret # NO_ERROR /\ UNCHANGED session /\ Writes(last'.calls) = << >>)]_vars

\* C4: setParametersZoom while the capture state machine is in a ZOOM_ACTIVE
\* state returns an error (busy), changes no session member and writes nothing
\* to the component, whatever state the caller read before the call.
C4_BusyIsRejected ==
    [][\A zoom \in ZoomArgs, state \in BOOLEAN :
          (zoomActive /\ SetZoomStep(zoom, state))
             => (last'.ret # NO_ERROR /\ UNCHANGED session /\ Writes(last'.calls) = << >>)]_vars

\* C5: a smooth zoom sequence started by startSmoothZoom(to) at index from,
\* ticked by advanceZoom with ZOOM_ACTIVE set and doZoom succeeding, moves
\* mCurrentZoomIdx one index towards to per tick and is at to after exactly
\* |to - from| ticks; every tick before the last notifies (index, FALSE), the
\* last notifies (to, TRUE) and requests the exit from the ZOOM_ACTIVE state.
C5_SmoothZoomReachesTarget ==
    anim.on =>
        LET dist == IF anim.from < anim.to THEN anim.to - anim.from
                    ELSE anim.from - anim.to
            dir  == IF anim.from < anim.to THEN 1 ELSE -1
        IN  /\ mTargetZoomIdx = anim.to
            /\ anim.ticks <= dist
            /\ mCurrentZoomIdx = anim.from + dir * anim.ticks
            /\ (mCurrentZoomIdx = anim.to) <=> (anim.ticks = dist)
            /\ anim.ticks >= 1 =>
                  /\ last.op = "advanceZoom"
                  /\ last.notes = << [ index |-> mCurrentZoomIdx,
                                       final |-> (anim.ticks = dist) ] >>
                  /\ (last.exit # "none") <=> (anim.ticks = dist)

\* A sequence over the whole range has reached its target: the last of its
\* ticks, after an intermediate one, got the exit committed.
C5_Witness ==
    /\ anim.on
    /\ anim.from = 0
    /\ anim.to = mMaxZoomSupported - 1
    /\ anim.ticks = mMaxZoomSupported - 1
    /\ anim.ticks >= 2
    /\ last.exit = "committed"

\* C6: the advanceZoom call that follows a stopSmoothZoom call made while
\* mCurrentZoomIdx # mTargetZoomIdx moves mCurrentZoomIdx one index towards the
\* target, sets mTargetZoomIdx to it, clears mReturnZoomStatus and notifies once,
\* with the final flag; the advanceZoom calls after it leave mCurrentZoomIdx
\* where it is and notify nothing.
C6_StopTakesOneFinalStep ==
    [][/\ (cancel.phase = "pending" /\ cancel'.phase = "settled") =>
             /\ mCurrentZoomIdx' =
                   mCurrentZoomIdx + (IF mCurrentZoomIdx < mTargetZoomIdx THEN 1 ELSE -1)
             /\ mTargetZoomIdx' = mCurrentZoomIdx'
             /\ ~mReturnZoomStatus'
             /\ last'.notes = << [ index |-> mCurrentZoomIdx', final |-> TRUE ] >>
       /\ (cancel.phase = "settled" /\ cancel'.phase = "settled") =>
             /\ mCurrentZoomIdx' = mCurrentZoomIdx
             /\ mTargetZoomIdx' = mCurrentZoomIdx
             /\ (last' # last => last'.notes = << >>)]_vars

\* A sequence stopped two indices away from its target has settled one index
\* further, and advanceZoom has been called again since.
C6_Witness ==
    /\ cancel.phase = "settled"
    /\ cancel.dist = 2
    /\ last.op = "advanceZoom"
    /\ last.notes = << >>
    /\ mCurrentZoomIdx = 1
    /\ mTargetZoomIdx = 1

\* C7: of the setParametersZoom calls made while an update is in flight, only
\* the index of the last one reaches the component: a deferred call writes
\* nothing itself, and the advanceZoom call that follows it writes that index
\* and no other (the component being valid and its writes succeeding).
C7_LastDeferredIndexIsApplied ==
    [][/\ (last'.op = "setParametersZoom" /\ last'.branch = "deferred") =>
             Writes(last'.calls) = << >>
       /\ ( /\ last.op = "setParametersZoom"
            /\ last.branch = "deferred"
            /\ last'.op = "advanceZoom"
            /\ mComponentState = "valid"
            /\ \A k \in 1 .. Len(last'.calls) : last'.calls[k].hw # "fail" ) =>
             /\ \A k \in 1 .. Len(last'.calls) :
                   last'.calls[k].hw = "ok" => last'.calls[k].index = mCurrentZoomIdx
             /\ mPreviousZoomIndx' = mCurrentZoomIdx]_vars

\* C8: startSmoothZoom never moves mCurrentZoomIdx and never writes to the
\* component; with a valid index it sets mTargetZoomIdx to it and clears
\* mReturnZoomStatus, with any other index it returns an error and changes no
\* session member.
C8_StartSmoothZoomOnlySetsTarget ==
    [][last'.op = "startSmoothZoom" =>
          \A targetIdx \in ZoomArgs :
             startSmoothZoom(targetIdx) =>
                /\ mCurrentZoomIdx' = mCurrentZoomIdx
                /\ last'.calls = << >>
                /\ mPreviousZoomIndx' = mPreviousZoomIndx
                /\ IF InRange(targetIdx)
                   THEN mTargetZoomIdx' = targetIdx /\ ~mReturnZoomStatus'
                   ELSE last'.ret # NO_ERROR /\ UNCHANGED session]_vars

\* startSmoothZoom was refused while a return step was pending and an update
\* was deferred: both are still there.
C8_Witness ==
    /\ last.op = "startSmoothZoom"
    /\ last.ret = EINVAL
    /\ mReturnZoomStatus
    /\ mZoomUpdate
    /\ mCurrentZoomIdx # mTargetZoomIdx

\* C9: when the component write of a smooth zoom step fails, mCurrentZoomIdx
\* stays on the index last written with success, and the next advanceZoom call
\* writes the index that failed again.
C9_FailedStepIsRetried ==
    [][/\ ( /\ last'.op = "advanceZoom"
            /\ last' # last
            /\ last'.branch = "step"
            /\ last'.calls[1].hw = "fail" ) =>
             mCurrentZoomIdx' = mCurrentZoomIdx
       /\ ( /\ last.op = "advanceZoom"
            /\ last.branch = "step"
            /\ last.calls[1].hw = "fail"
            /\ zoomActive
            /\ last'.op = "advanceZoom"
            /\ last' # last ) =>
             /\ last'.calls # << >>
             /\ last'.calls[1].index = last.calls[1].index]_vars

\* C10: a doZoom call that repeats the call before it (same index, same capture
\* mode and sensor, and that call wrote to the component with success) returns
\* NO_ERROR without writing to the component.
C10_RepeatedApplyIsSkipped ==
    \A k \in 1 .. Len(last.calls) :
        last.calls[k].repeat =>
            (last.calls[k].hw = "skip" /\ last.calls[k].ret = NO_ERROR)

\* In the tuna build, index 0 was written in video mode and the doZoom call
\* after it, in the same advanceZoom call, repeated it.
C10_Witness ==
    /\ CAMERAHAL_TUNA
    /\ IsVideoMode(mCapMode)
    /\ last.op = "advanceZoom"
    /\ Len(last.calls) = 2
    /\ last.calls[1].hw = "ok"
    /\ last.calls[1].index = 0
    /\ last.calls[2].repeat

\* The session is settled: no step is left to take towards the target.
Settled == mCurrentZoomIdx = mTargetZoomIdx /\ ~mReturnZoomStatus

\* The last method call set a target: startSmoothZoom or setParametersZoom
\* accepted its index.
TargetSet(call) ==
    \/ call.op = "startSmoothZoom" /\ call.branch = "accepted"
    \/ call.op = "setParametersZoom" /\ call.branch \in {"applied", "deferred"}

\* C11: a notification with the final flag is the last one for its target: it
\* leaves the session settled, and from a settled session advanceZoom notifies
\* nothing until startSmoothZoom or setParametersZoom sets a target; and no
\* target is set while a smooth zoom sequence is between its first tick and its
\* final notification.
C11_FinalNotificationIsLast ==
    [][/\ (last' # last /\ \E k \in 1 .. Len(last'.notes) : last'.notes[k].final)
             => Settled'
       /\ (Settled /\ last' # last /\ last'.op = "advanceZoom")
             => (last'.notes = << >> /\ Settled')
       /\ (Settled /\ ~TargetSet(last')) => Settled'
       /\ ( /\ anim.on
            /\ anim.ticks >= 1
            /\ anim.ticks < Distance(anim.from, anim.to)
            /\ last'.op \in {"startSmoothZoom", "setParametersZoom"} )
             => ~TargetSet(last')]_vars

\* The first three conjuncts of C11 alone: what follows a final notification.
FinalNotificationSettles ==
    [][/\ (last' # last /\ \E k \in 1 .. Len(last'.notes) : last'.notes[k].final)
             => Settled'
       /\ (Settled /\ last' # last /\ last'.op = "advanceZoom")
             => (last'.notes = << >> /\ Settled')
       /\ (Settled /\ ~TargetSet(last')) => Settled']_vars

\* C13: a doZoom call whose component write fails returns an error and leaves
\* mPreviousZoomIndx as it was, and the doZoom call after it with the same
\* index, capture mode and sensor (the trailing call of the same advanceZoom)
\* writes to the component again; for every index, index 0 after a change of
\* capture mode or sensor included.
C13_FailedWriteIsRetried ==
    [][last' # last =>
          /\ \A k \in 1 .. Len(last'.calls) :
                last'.calls[k].hw = "fail" => last'.calls[k].ret # NO_ERROR
          /\ ( /\ \E k \in 1 .. Len(last'.calls) : last'.calls[k].hw = "fail"
               /\ \A k \in 1 .. Len(last'.calls) : last'.calls[k].hw # "ok" )
                => mPreviousZoomIndx' = mPreviousZoomIndx
          /\ \A k \in 1 .. Len(last'.calls) - 1 :
                ( /\ last'.calls[k].hw = "fail"
                  /\ last'.calls[k + 1].index = last'.calls[k].index )
                   => last'.calls[k + 1].hw \in {"ok", "fail"}]_vars

\* C14: advanceZoom called on a settled session while the capture state
\* machine is in a ZOOM_ACTIVE state requests the exit from it: when the
\* transition is accepted the state leaves ZOOM_ACTIVE, when it is not the
\* state stays as it was.  So a session that stays settled leaves ZOOM_ACTIVE,
\* given that advanceZoom keeps being called and the transition is accepted
\* in the end.
SettledAdvanceRequestsExit ==
    [][(Settled /\ zoomActive /\ last' # last /\ last'.op = "advanceZoom") =>
          /\ last'.branch = "settled"
          /\ last'.exit \in {"committed", "rolledback"}
          /\ (last'.exit = "committed") => (~zoomActive' /\ last'.ret = NO_ERROR)
          /\ (last'.exit = "rolledback") => (zoomActive' /\ last'.ret # NO_ERROR)
          /\ mCurrentZoomIdx' = mCurrentZoomIdx
          /\ mTargetZoomIdx' = mTargetZoomIdx]_vars

C14_SettledSessionExits ==
    /\ SettledAdvanceRequestsExit
    /\ ((Settled /\ zoomActive) ~> (~zoomActive \/ ~Settled))

\* advanceZoom found the session settled on the highest index in a ZOOM_ACTIVE
\* state, and the exit from it was accepted.
C14_Witness ==
    /\ last.op = "advanceZoom"
    /\ last.branch = "settled"
    /\ last.exit = "committed"
    /\ ~zoomActive
    /\ Settled
    /\ mCurrentZoomIdx = mMaxZoomSupported - 1

\* advanceZoom on a settled session in a ZOOM_ACTIVE state, the transition
\* out of it accepted.
AdvanceExitAccepted ==
    /\ Settled
    /\ zoomActive
    /\ \E hw2 \in BOOLEAN : advanceZoom(TRUE, hw2, TRUE)
    /\ UNCHANGED threads

\* The build without CAMERAHAL_TUNA (advanceZoom is the same in both builds),
\* where the tick loop keeps calling advanceZoom and the capture state machine
\* does not refuse the exit for ever.
TickInit == Init /\ ~CAMERAHAL_TUNA

TickNext ==
    \/ \E zoom \in ZoomArgs, state \in BOOLEAN, hwOk \in BOOLEAN :
           setParametersZoom(zoom, state, hwOk) /\ UNCHANGED threads
    \/ \E targetIdx \in ZoomArgs : startSmoothZoom(targetIdx) /\ UNCHANGED threads
    \/ stopSmoothZoom /\ UNCHANGED threads
    \/ \E hw1 \in BOOLEAN, hw2 \in BOOLEAN, exitOk \in BOOLEAN :
           advanceZoom(hw1, hw2, exitOk) /\ UNCHANGED threads
    \/ CaptureStateChange /\ UNCHANGED threads
    \/ ComponentInvalid /\ UNCHANGED threads

TickSpec == TickInit /\ [][TickNext]_vars /\ SF_vars(AdvanceExitAccepted)

\* C15: an advanceZoom call that changes mCurrentZoomIdx notifies the
\* subscribers exactly once, with the new index, and a call that leaves it
\* unchanged notifies nothing; the jump to the target made without ZOOM_ACTIVE
\* included.
C15_OneNotificationPerChange ==
    [][(last' # last /\ last'.op = "advanceZoom") =>
          IF mCurrentZoomIdx' # mCurrentZoomIdx
          THEN /\ Len(last'.notes) = 1
               /\ last'.notes[1].index = mCurrentZoomIdx'
          ELSE last'.notes = << >>]_vars

\* C15 without the jump: every branch of advanceZoom but that one notifies
\* once per change.
OneNotificationPerAnimatedChange ==
    [][(last' # last /\ last'.op = "advanceZoom" /\ last'.branch # "jump") =>
          IF mCurrentZoomIdx' # mCurrentZoomIdx
          THEN /\ Len(last'.notes) = 1
               /\ last'.notes[1].index = mCurrentZoomIdx'
          ELSE last'.notes = << >>]_vars

\* C16: every failure of a component write made in an advanceZoom call is in
\* the status the call returns: for the write of the stepped index, of the
\* return step, and of the deferred update at the end of the call.
C16_WriteFailureIsReturned ==
    (last.op = "advanceZoom" /\ \E k \in 1 .. Len(last.calls) : last.calls[k].hw = "fail")
        => last.ret # NO_ERROR

\* C16 for the first doZoom call of advanceZoom alone.
FirstWriteFailureIsReturned ==
    (last.op = "advanceZoom" /\ last.branch # "idle" /\ last.branch # "settled"
        /\ last.calls[1].hw = "fail")
        => last.ret # NO_ERROR

\* No doZoom call of the method call failed to write: each one wrote with
\* success or found its index applied already.
AllApplied(calls) == \A k \in 1 .. Len(calls) : calls[k].hw \in {"ok", "skip"}

\* C18: at the end of every advanceZoom call, when mZoomUpdate was set on
\* entry mTargetZoomIdx is written to the component (the component being valid
\* and the write succeeding), mZoomUpdate is cleared and mZoomUpdating is left
\* set, and otherwise mZoomUpdating is cleared; so mZoomUpdate is clear after
\* every advanceZoom call and the index of a deferred setParametersZoom call is
\* on the component after the advanceZoom call that follows it.
C18_DeferredUpdateIsApplied ==
    [][(last' # last /\ last'.op = "advanceZoom") =>
          /\ ~mZoomUpdate'
          /\ mZoomUpdating' = mZoomUpdate
          /\ mZoomUpdate =>
                /\ last'.calls # << >>
                /\ last'.calls[Len(last'.calls)].index = mTargetZoomIdx'
                /\ ( /\ mComponentState = "valid"
                     /\ \A k \in 1 .. Len(last'.calls) : last'.calls[k].hw # "fail" )
                      => mPreviousZoomIndx' = mTargetZoomIdx'
          /\ ( /\ last.op = "setParametersZoom"
               /\ last.branch = "deferred"
               /\ mComponentState = "valid"
               /\ \A k \in 1 .. Len(last'.calls) : last'.calls[k].hw # "fail" )
                => mPreviousZoomIndx' = mCurrentZoomIdx]_vars

\* C18 for the sessions with no return step pending when advanceZoom is called.
DeferredUpdateIsAppliedWithoutReturnStep ==
    [][(last' # last /\ last'.op = "advanceZoom" /\ ~mReturnZoomStatus) =>
          /\ ~mZoomUpdate'
          /\ mZoomUpdating' = mZoomUpdate
          /\ mZoomUpdate =>
                /\ last'.calls # << >>
                /\ last'.calls[Len(last'.calls)].index = mTargetZoomIdx'
                /\ ( /\ mComponentState = "valid"
                     /\ \A k \in 1 .. Len(last'.calls) : last'.calls[k].hw # "fail" )
                      => mPreviousZoomIndx' = mTargetZoomIdx'
          /\ ( /\ last.op = "setParametersZoom"
               /\ last.branch = "deferred"
               /\ mComponentState = "valid"
               /\ \A k \in 1 .. Len(last'.calls) : last'.calls[k].hw # "fail" )
                => mPreviousZoomIndx' = mCurrentZoomIdx]_vars

\* The flags of C18 alone.
UpdateFlagsAfterAdvance ==
    [][(last' # last /\ last'.op = "advanceZoom") =>
          /\ ~mZoomUpdate'
          /\ mZoomUpdating' = mZoomUpdate
          /\ mZoomUpdate =>
                /\ last'.calls # << >>
                /\ last'.calls[Len(last'.calls)].index = mTargetZoomIdx']_vars

\* C19: after an advanceZoom call whose doZoom calls all got through (the
\* component valid, every write succeeding), the index last written to the
\* component is mCurrentZoomIdx: the deferred update at the end of the call
\* does not put the component on mTargetZoomIdx while mCurrentZoomIdx is an
\* intermediate step of a smooth zoom sequence.
C19_HardwareFollowsCurrentIndex ==
    [][( /\ last' # last
         /\ last'.op = "advanceZoom"
         /\ last'.calls # << >>
         /\ AllApplied(last'.calls) )
          => mPreviousZoomIndx' = mCurrentZoomIdx']_vars

\* C19 for the advanceZoom calls with no update deferred.
HardwareFollowsCurrentIndexWithoutUpdate ==
    [][( /\ last' # last
         /\ last'.op = "advanceZoom"
         /\ ~mZoomUpdate
         /\ last'.calls # << >>
         /\ AllApplied(last'.calls) )
          => mPreviousZoomIndx' = mCurrentZoomIdx']_vars

\* C20: the advanceZoom calls that follow an accepted setParametersZoom(i),
\* with no other zoom method call in between, leave mCurrentZoomIdx on i: the
\* first of them does not move it, and a settled session is not moved by
\* advanceZoom; a return step left pending by stopSmoothZoom is not taken
\* after the immediate zoom.
C20_ImmediateZoomStays ==
    [][(last' # last /\ last'.op = "advanceZoom") =>
          /\ (last.op = "setParametersZoom" /\ last.branch \in {"applied", "deferred"})
                => (mCurrentZoomIdx' = mCurrentZoomIdx /\ Settled')
          /\ Settled => (mCurrentZoomIdx' = mCurrentZoomIdx /\ Settled')]_vars

\* C20 for an immediate zoom made with no return step pending.
ImmediateZoomStaysWithoutReturnStep ==
    [][(last' # last /\ last'.op = "advanceZoom") =>
          /\ ( /\ last.op = "setParametersZoom"
               /\ last.branch \in {"applied", "deferred"}
               /\ ~mReturnZoomStatus )
                => (mCurrentZoomIdx' = mCurrentZoomIdx /\ Settled')
          /\ Settled => (mCurrentZoomIdx' = mCurrentZoomIdx /\ Settled')]_vars

----------------------------------------------------------------------------
\* The zoom methods called from several threads.  Every method constructs an
\* AutoMutex on mZoomLock as it begins and destroys it as it returns.  A
\* thread in a method is at "lock" (waiting for mZoomLock), at "getState"
\* (advanceZoom, in BaseCameraAdapter::getState), at "body" (the statements on
\* the zoom members; their effect is taken in one step, as no other thread
\* reads them without mZoomLock), at "OMX_SetConfig" (in the component write
\* of doZoom), at "setState" (in BaseCameraAdapter::setState and commitState
\* or rollbackState) or at "return".  The component is valid and its writes
\* succeed here.

ZoomMethods == {"setParametersZoom", "startSmoothZoom", "stopSmoothZoom", "advanceZoom"}

\* Where pc[t] stands.
At(t) == IF pc[t].at = << >> THEN "none" ELSE Head(pc[t].at)

\* AutoMutex that does not wait.
LockAvailableAlways(owner) == TRUE

\* AutoMutex lock(mZoomLock) goes on when no thread holds mZoomLock.
LockAvailable(owner) == owner = "free"

\* What a method does after the statements on the zoom members, in the order
\* of the code, from the observation call of the method call: the component
\* writes its doZoom calls make and the exit request to the capture state
\* machine.
Path(call) ==
    LET write(k) == IF k <= Len(call.calls) /\ call.calls[k].hw \in {"ok", "fail"}
                    THEN << "OMX_SetConfig" >> ELSE << >>
        exit == IF call.exit # "none" THEN << "setState" >> ELSE << >>
    IN  IF call.branch = "settled" THEN exit \o write(1)
        ELSE write(1) \o exit \o write(2)

\* Thread t calls method op.
Call(t, op) ==
    /\ pc[t] = NotCalling
    /\ pc' = [ pc EXCEPT ![t] = [ op |-> op, at |-> << "lock" >> ] ]
    /\ UNCHANGED << session, environment, zoomActive, observations, mZoomLock >>

\* android::AutoMutex lock(mZoomLock)
Lock(t) ==
    /\ At(t) = "lock"
    /\ LockAvailable(mZoomLock)
    /\ mZoomLock' = t
    /\ pc' = [ pc EXCEPT ![t].at = IF pc[t].op = "advanceZoom"
                                   THEN << "getState", "body" >>
                                   ELSE << "body" >> ]
    /\ UNCHANGED << session, environment, zoomActive, observations >>

\* BaseCameraAdapter::getState(state) returns in advanceZoom.
GetState(t) ==
    /\ At(t) = "getState"
    /\ pc' = [ pc EXCEPT ![t].at = Tail(pc[t].at) ]
    /\ UNCHANGED << session, environment, zoomActive, observations, mZoomLock >>

\* The statements of the method on the zoom members.
Body(t) ==
    /\ At(t) = "body"
    /\ \/ /\ pc[t].op = "setParametersZoom"
          /\ \E zoom \in ZoomArgs, state \in BOOLEAN : setParametersZoom(zoom, state, TRUE)
       \/ /\ pc[t].op = "startSmoothZoom"
          /\ \E targetIdx \in ZoomArgs : startSmoothZoom(targetIdx)
       \/ /\ pc[t].op = "stopSmoothZoom"
          /\ stopSmoothZoom
       \/ /\ pc[t].op = "advanceZoom"
          /\ \E exitOk \in BOOLEAN : advanceZoom(TRUE, TRUE, exitOk)
    /\ pc' = [ pc EXCEPT ![t].at = Path(last') \o << "return" >> ]
    /\ UNCHANGED mZoomLock

\* OMX_SetConfig, or the capture state transition, returns.
Proceed(t) ==
    /\ At(t) \in {"OMX_SetConfig", "setState"}
    /\ pc' = [ pc EXCEPT ![t].at = Tail(pc[t].at) ]
    /\ UNCHANGED << session, environment, zoomActive, observations, mZoomLock >>

\* The method returns: the AutoMutex goes out of scope.
Return(t) ==
    /\ At(t) = "return"
    /\ mZoomLock' = IF mZoomLock = t THEN "free" ELSE mZoomLock
    /\ pc' = [ pc EXCEPT ![t] = NotCalling ]
    /\ UNCHANGED << session, environment, zoomActive, observations >>

LockInit == Init /\ ~CAMERAHAL_TUNA

LockNext ==
    \/ \E t \in Threads, op \in ZoomMethods : Call(t, op)
    \/ \E t \in Threads : Lock(t)
    \/ \E t \in Threads : GetState(t)
    \/ \E t \in Threads : Body(t)
    \/ \E t \in Threads : Proceed(t)
    \/ \E t \in Threads : Return(t)
    \/ CaptureStateChange /\ UNCHANGED threads

LockSpec == LockInit /\ [][LockNext]_vars

\* Thread t is in a zoom method past the construction of the AutoMutex.
InCriticalSection(t) == At(t) \notin {"none", "lock"}

\* C12: the four zoom methods exclude one another: at most one thread is past
\* the AutoMutex of a zoom method at any time, and it holds mZoomLock in every
\* position up to its return, the component write included.
C12_ZoomMethodsExcludeOneAnother ==
    /\ \A t \in Threads : InCriticalSection(t) => mZoomLock = t
    /\ \A t, u \in Threads : (InCriticalSection(t) /\ InCriticalSection(u)) => t = u

\* One thread is in the component write of setParametersZoom while the other
\* has called advanceZoom and waits for mZoomLock.
C12_Witness ==
    /\ pc["api"].op = "setParametersZoom"
    /\ At("api") = "OMX_SetConfig"
    /\ pc["frame"].op = "advanceZoom"
    /\ At("frame") = "lock"
    /\ mZoomLock = "api"

\* C17: no thread is in an operation of the capture state machine (getState,
\* setState, commitState, rollbackState) while it holds mZoomLock.
C17_BridgeCalledWithoutSessionLock ==
    \A t \in Threads : At(t) \in {"getState", "setState"} => mZoomLock # t

====
